---- MODULE Spec2Model ----
(***************************************************************************)
(* A model of kju-ar (src/src/main.rs): the batch job runner of AppState   *)
(* (start_job, the worker thread it spawns, the poll at the top of        *)
(* update), the pure helpers the worker calls (naming, rendering,         *)
(* placement, writing), and the preview that update draws in every frame. *)
(*                                                                         *)
(* Text is modelled as a sequence of one-character strings, a path as the *)
(* text of the path, Option<T> as a sequence of length 0 or 1.  Czech     *)
(* messages are written without diacritics.                               *)
(***************************************************************************)
EXTENDS Integers, Sequences, FiniteSets, TLC

(***************************************************************************)
(* Bounds of the model.                                                    *)
(***************************************************************************)
\* the widest matrix of modules that is drawn pixel by pixel
MaxMatrixWidth == 2

\* number of worker threads that can be alive at once
MaxWorkers == 2
\* number of parameter edits the interactive context makes in one behaviour
MaxEdits == 2
\* number of lines of a bulk payload text
MaxLines == 2
\* scaled-down capacity of a QR symbol, in bytes of payload
QrCapacity == 3

(***************************************************************************)
(* Option<T>                                                               *)
(***************************************************************************)
None == <<>>

Some(x) == <<x>>

\* a let binding, by value: F at the value of e
Let(e, F(_)) == CHOOSE r \in {F(v) : v \in {e}} : TRUE

(***************************************************************************)
(* Characters and text                                                     *)
(***************************************************************************)
LowerCase == <<"a","b","c","d","e","f","g","h","i","j","k","l","m","n","o","p","q","r","s","t","u","v","w","x","y","z">>

UpperCase == <<"A","B","C","D","E","F","G","H","I","J","K","L","M","N","O","P","Q","R","S","T","U","V","W","X","Y","Z">>

Digits == <<"0","1","2","3","4","5","6","7","8","9">>

HexDigits == <<"0","1","2","3","4","5","6","7","8","9","a","b","c","d","e","f">>

Range(s) == { s[i] : i \in 1..Len(s) }

\* char::is_ascii_alphanumeric
is_ascii_alphanumeric(ch) == ch \in Range(LowerCase) \cup Range(UpperCase) \cup Range(Digits)

\* the ASCII punctuation and blanks the model's texts use
AsciiOther == <<" ", "\t", "\n", "\r", "-", "_", "/", ":", ".", "?", "=", "&">>

\* a character outside ASCII, written as its code point
NonAscii == <<"U+00E9", "U+010D">>

\* char::is_ascii
is_ascii(ch) == is_ascii_alphanumeric(ch) \/ ch \in Range(AsciiOther)

\* char::is_whitespace, on the characters of the model
WhiteSpace == {" ", "\t", "\n", "\r"}

CharTable == LowerCase \o UpperCase \o Digits \o AsciiOther \o NonAscii

\* the position of a character in CharTable, standing for its byte value
CharCode(ch) == CHOOSE i \in 1..Len(CharTable) : CharTable[i] = ch

\* u8::to_ascii_lowercase
to_ascii_lowercase_char(ch) ==
    IF ch \in Range(UpperCase)
    THEN LowerCase[CHOOSE i \in 1..Len(UpperCase) : UpperCase[i] = ch]
    ELSE ch

to_ascii_lowercase(s) == [i \in 1..Len(s) |-> to_ascii_lowercase_char(s[i])]

RECURSIVE trim_start_matches(_, _)
\* str::trim_start_matches with a set of characters
trim_start_matches(s, set) ==
    IF s # <<>> /\ Head(s) \in set THEN trim_start_matches(Tail(s), set) ELSE s

RECURSIVE trim_end_matches(_, _)
\* str::trim_end_matches with a set of characters
trim_end_matches(s, set) ==
    IF s # <<>> /\ s[Len(s)] \in set
    THEN trim_end_matches(SubSeq(s, 1, Len(s) - 1), set)
    ELSE s

\* str::trim_matches
trim_matches(s, set) == trim_end_matches(trim_start_matches(s, set), set)

\* str::trim
trim(s) == trim_matches(s, WhiteSpace)

\* whether pat occurs in s at position i
OccursAt(s, pat, i) == i + Len(pat) - 1 <= Len(s) /\ SubSeq(s, i, i + Len(pat) - 1) = pat

\* str::find: the first position of pat in s, 0 when there is none
Find(s, pat) ==
    IF \E i \in 1..Len(s) : OccursAt(s, pat, i)
    THEN CHOOSE i \in 1..Len(s) : OccursAt(s, pat, i) /\ \A j \in 1..(i - 1) : ~OccursAt(s, pat, j)
    ELSE 0

\* str::rfind: the last position of pat in s, 0 when there is none
RFind(s, pat) ==
    IF \E i \in 1..Len(s) : OccursAt(s, pat, i)
    THEN CHOOSE i \in 1..Len(s) : OccursAt(s, pat, i) /\ \A j \in (i + 1)..Len(s) : ~OccursAt(s, pat, j)
    ELSE 0

RECURSIVE split(_, _)
\* str::split(pat), collected: the pieces of s between occurrences of pat
split(s, pat) ==
    Let(Find(s, pat), LAMBDA i :
        IF i = 0
        THEN <<s>>
        ELSE Let(SubSeq(s, i + Len(pat), Len(s)), LAMBDA rest :
                 <<SubSeq(s, 1, i - 1)>> \o split(rest, pat)))

\* str::lines, collected: split at "\n", a final line ending is optional, and a
\* "\r" before the "\n" belongs to the line ending
lines(s) ==
    Let(split(s, <<"\n">>), LAMBDA pieces :
        LET n      == Len(pieces)
            kept   == IF pieces[n] = <<>> THEN SubSeq(pieces, 1, n - 1) ELSE pieces
            strip(l) == IF l # <<>> /\ l[Len(l)] = "\r" THEN SubSeq(l, 1, Len(l) - 1) ELSE l
        IN  [k \in 1..Len(kept) |-> IF k < n THEN strip(kept[k]) ELSE kept[k]])

RECURSIVE SelectNonEmpty(_)
\* Iterator::filter(|s| !s.is_empty()), on a sequence of texts
SelectNonEmpty(ls) ==
    IF ls = <<>> THEN <<>>
    ELSE IF Head(ls) = <<>> THEN SelectNonEmpty(Tail(ls))
    ELSE <<Head(ls)>> \o SelectNonEmpty(Tail(ls))

RECURSIVE Decimal(_)
\* the decimal digits of a natural number
Decimal(n) == IF n < 10 THEN <<Digits[n + 1]>> ELSE Decimal(n \div 10) \o <<Digits[(n % 10) + 1]>>

RECURSIVE ZeroPad(_, _)
\* format!("{:0w}"): the digits, padded with zeros on the left to width w
ZeroPad(ds, w) == IF Len(ds) >= w THEN ds ELSE ZeroPad(<<"0">> \o ds, w)

RECURSIVE Flatten(_)
\* concatenation of a sequence of texts
Flatten(ss) == IF ss = <<>> THEN <<>> ELSE Head(ss) \o Flatten(Tail(ss))

\* str::len: the length in bytes (a character outside ASCII takes two)
ByteLen(s) == Len(s) + Cardinality({ i \in 1..Len(s) : ~is_ascii(s[i]) })

(***************************************************************************)
(* Results: anyhow::Result<T>                                              *)
(***************************************************************************)
Ok(v) == [ok |-> TRUE, val |-> <<v>>, err |-> <<>>]

Err(e) == [ok |-> FALSE, val |-> <<>>, err |-> e]

(***************************************************************************)
(* Types of the program                                                    *)
(***************************************************************************)
\* enum Corner
Corner == {"Southeast", "Southwest", "Northeast", "Northwest", "Custom"}

\* enum SaveMode
SaveMode == {"OverlayIntoImage", "QrOnlySingle", "QrOnlyBulk"}

\* enum OutputFormat
OutputFormat == {"Png", "Jpeg", "Tiff"}

\* OutputFormat::ext
ext(fmt) ==
    CASE fmt = "Png"  -> <<"p","n","g">>
      [] fmt = "Jpeg" -> <<"j","p","g">>
      [] fmt = "Tiff" -> <<"t","i","f">>

\* enum JobResult
JobResultOk(path) == [tag |-> "Ok", val |-> path]

JobResultErr(message) == [tag |-> "Err", val |-> message]

(***************************************************************************)
(* Paths: std::path                                                        *)
(***************************************************************************)
\* Path::file_name, as text
file_name(p) == Let(RFind(p, <<"/">>), LAMBDA i : SubSeq(p, i + 1, Len(p)))

\* Path::parent, as text (empty for a bare file name)
parent(p) == Let(RFind(p, <<"/">>), LAMBDA i : SubSeq(p, 1, i - 1))

\* Path::extension: None without a dot, or when the only dot starts the name
extension(p) ==
    Let(file_name(p), LAMBDA f :
    Let(RFind(f, <<".">>), LAMBDA i :
        IF i <= 1 THEN None ELSE Some(SubSeq(f, i + 1, Len(f)))))

\* Path::file_stem
file_stem(p) ==
    Let(file_name(p), LAMBDA f :
    Let(RFind(f, <<".">>), LAMBDA i :
        IF i <= 1 THEN f ELSE SubSeq(f, 1, i - 1)))

\* Path::join with a relative name
join(dir, name) ==
    IF dir = <<>> THEN name
    ELSE IF dir[Len(dir)] = "/" THEN dir \o name
    ELSE dir \o <<"/">> \o name

default_qr_out_path == <<"q","r",".","p","n","g">>

default_bulk_dir == <<"q","r","_","e","x","p","o","r","t">>

default_out_path(in_path) ==
    IF in_path = None THEN default_qr_out_path
    ELSE Let(extension(in_path[1]), LAMBDA e :
             join(parent(in_path[1]),
                  <<"o","u","t","_">> \o file_stem(in_path[1]) \o <<".">>
                      \o (IF e = None THEN <<"p","n","g">> ELSE e[1])))

(***************************************************************************)
(* Naming of bulk exports                                                  *)
(***************************************************************************)
\* the length a slug is truncated to
SlugMaxLen == 40

RECURSIVE CollapseDashes(_, _)
\* the second loop of sanitize_for_filename: runs of '-' become one '-'
CollapseDashes(s, prev_dash) ==
    IF s = <<>> THEN <<>>
    ELSE IF Head(s) = "-"
         THEN (IF prev_dash THEN <<>> ELSE <<"-">>) \o CollapseDashes(Tail(s), TRUE)
         ELSE <<Head(s)>> \o CollapseDashes(Tail(s), FALSE)

sanitize_for_filename(s) ==
    LET mapped == [i \in 1..Len(s) |->
                      IF is_ascii_alphanumeric(s[i]) \/ s[i] = "-" \/ s[i] = "_" THEN <<s[i]>>
                      ELSE IF is_ascii(s[i]) THEN <<"-">>
                      ELSE <<>>]
    IN  Let(Flatten(mapped), LAMBDA out0 :
        Let(CollapseDashes(out0, FALSE), LAMBDA out :
            trim_matches(out, {"-"})))

make_slug_from_url(url) ==
    Let(trim_end_matches(trim(url), {"/"}), LAMBDA u :
    Let(split(u, <<":","/","/">>), LAMBDA parts :
    Let(split(IF Len(parts) >= 2 THEN parts[2] ELSE u, <<"/">>)[1], LAMBDA host :
    Let(split(u, <<"/">>), LAMBDA segs :
    Let(segs[Len(segs)], LAMBDA last :
    Let(IF host # <<>> THEN sanitize_for_filename(host) ELSE <<>>, LAMBDA s1 :
    Let(IF last # <<>> /\ last # host
        THEN (IF s1 # <<>> THEN s1 \o <<"_">> ELSE s1) \o sanitize_for_filename(last)
        ELSE s1, LAMBDA s2 :
    Let(IF Len(s2) > SlugMaxLen THEN SubSeq(s2, 1, SlugMaxLen) ELSE s2, LAMBDA s3 :
        trim_matches(s3, {"_"})))))))))

\* one byte of the digest: the sha1 crate is outside the repository, and the
\* model keeps of it only that the digest is a function of the bytes of s
DigestByte(s, j) ==
    LET RECURSIVE sum(_)
        sum(i) == IF i = 0 THEN 0 ELSE CharCode(s[i]) * (i + j) + sum(i - 1)
    IN  sum(Len(s)) % 256

\* format!("{:02x}", b)
Hex2(b) == <<HexDigits[(b \div 16) + 1], HexDigits[(b % 16) + 1]>>

sha1_hex10(s) == Flatten([j \in 1..5 |-> Hex2(DigestByte(s, j))])

\* a file name without the index
make_qr_filename_no_index(index1, url, fmt) ==
    <<"q","r","_">> \o make_slug_from_url(url) \o <<"_">> \o sha1_hex10(url) \o <<".">> \o ext(fmt)

make_qr_filename(index1, url, fmt) ==
    Let(make_slug_from_url(url), LAMBDA slug :
    Let(sha1_hex10(url), LAMBDA hash10 :
    Let(IF slug = <<>>
        THEN <<"q","r","_">> \o ZeroPad(Decimal(index1), 3) \o <<"_">> \o hash10
        ELSE <<"q","r","_">> \o ZeroPad(Decimal(index1), 3) \o <<"_">> \o slug
                 \o <<"_">> \o hash10, LAMBDA base :
        base \o <<".">> \o ext(fmt))))

(***************************************************************************)
(* Rendering, compositing and writing, as far as the job runner sees them. *)
(* A raster is described by the values it was rendered from; an operation  *)
(* of the environment (the file system, the image crate) yields the set of *)
(* outcomes it can have.                                                   *)
(***************************************************************************)
\* u32::saturating_sub
saturating_sub(a, b) == IF a > b THEN a - b ELSE 0

\* i32::max(0) as u32
max0_as_u32(v) == IF v > 0 THEN v ELSE 0

Min(a, b) == IF a < b THEN a ELSE b

Max(a, b) == IF a > b THEN a ELSE b

\* the value a u16 or a u8 keeps of a non-negative number
u16(n) == n % 65536

u8(n) == n % 256

\* line 985
quiet_zone_mod == 4

\* line 989
ss == 4

\* line 986
total_mod(width_mod) == width_mod + 2 * quiet_zone_mod

\* a module edge that is rounded up to cover the requested size
module_ss_rounded_up(size_px, width_mod) ==
    Max((Max(size_px, total_mod(width_mod)) * ss + total_mod(width_mod) - 1)
            \div total_mod(width_mod), 1)

\* lines 990-991: the edge of a module in the supersampled canvas; the
\* product stays far below 2^32 for the sizes of the slider of line 312
module_ss(size_px, width_mod) ==
    Max((Max(size_px, total_mod(width_mod)) * ss) \div total_mod(width_mod), 1)

\* line 992
canvas_ss(size_px, width_mod) == module_ss(size_px, width_mod) * total_mod(width_mod)

\* an alpha rounded to the nearest integer
alpha_channel_rounded(alpha_percent) == u8((u16(alpha_percent * 255) + 50) \div 100)

\* line 994: the alpha of the QR's pixels
alpha_channel(alpha_percent) == u8(u16(alpha_percent * 255) \div 100)

\* lines 1004-1008: the radius of a tile's corners; f32::round rounds a half
\* away from zero
corner_radius(m, rounding_percent) ==
    Min((m * rounding_percent + 50) \div 100, m \div 2)

\* draw_filled_rect_mut(Rect::at(x0, y0).of_size(w, h)): the pixels painted
draw_filled_rect(x0, y0, w, h) == (x0 .. x0 + w - 1) \X (y0 .. y0 + h - 1)

\* draw_filled_circle_mut((cx, cy), r): the pixels of the disc, which reach
\* the distance r from the centre on both axes
draw_filled_circle(cx, cy, r) ==
    {q \in (cx - r .. cx + r) \X (cy - r .. cy + r) :
        (q[1] - cx) * (q[1] - cx) + (q[2] - cy) * (q[2] - cy) <= r * r}

\* lines 1014-1037: the pixels painted for the dark module (x, y), with a
\* module edge m and a corner radius r
draw_module(x, y, m, r) ==
    LET x0 == (x + quiet_zone_mod) * m
        y0 == (y + quiet_zone_mod) * m
        w  == m
        h  == m
        cx1 == x0 + r
        cy1 == y0 + r
        cx2 == x0 + w - r - 1
        cy2 == y0 + h - r - 1
    IN  IF r <= 0
        THEN draw_filled_rect(x0, y0, w, h)
        ELSE (IF w - 2 * r > 0
              THEN draw_filled_rect(x0 + r, y0, w - 2 * r, h)
                       \cup draw_filled_rect(x0, y0 + r, w, h - 2 * r)
              ELSE {})
             \cup draw_filled_circle(cx1, cy1, r) \cup draw_filled_circle(cx2, cy1, r)
             \cup draw_filled_circle(cx1, cy2, r) \cup draw_filled_circle(cx2, cy2, r)

\* lines 1011-1040: the pixels of the canvas that hold the module colour
\* after the loop over the dark modules; every other pixel holds bg_rgba
draw_modules(dark, m, r) == UNION {draw_module(c[1], c[2], m, r) : c \in dark}

\* a flattening with the weights of source and background exchanged
flatten_rgba_to_rgb_swapped(px, bg) ==
    [c \in 1..3 |-> u8(u16(u16(u16(bg[c] * px[4]) + u16(px[c] * u16(255 - px[4]))) + 127) \div 255)]

\* flatten_rgba_to_rgb, lines 1048-1060, on one pixel: u16 arithmetic, the
\* result cast to u8
flatten_rgba_to_rgb(px, bg) ==
    [c \in 1..3 |-> u8(u16(u16(u16(px[c] * px[4]) + u16(bg[c] * u16(255 - px[4]))) + 127) \div 255)]

\* build_qr_image: QrCode::new fails on a payload beyond the capacity of a
\* symbol; the raster has the requested edge, the alpha of lines 994-999;
\* no size is rejected, imageops::resize returns a raster of the edge asked
build_qr_image(url, size_px, mod_rgb, bg_rgb, alpha_percent, rounding_percent) ==
    IF ByteLen(url) > QrCapacity
    THEN Err(<<"Neplatne URL pro QR?">>)
    ELSE LET a == alpha_channel(alpha_percent)
         IN  Ok([width |-> size_px, height |-> size_px, symbol |-> url,
                 mod_rgba |-> mod_rgb \o <<a>>,
                 bg_rgba |-> IF bg_rgb = None THEN <<0, 0, 0, 0>> ELSE bg_rgb[1] \o <<a>>,
                 rounding_percent |-> rounding_percent])

\* a placement that measures every anchor from the north-west corner
overlay_position_from_northwest(corner, bw, bh, qw, qh, ox, oy) ==
    <<max0_as_u32(ox), max0_as_u32(oy)>>

\* the position of the QR on the base image, lines 853-865; qw + dx cannot
\* wrap in u32: dx comes from an i32, and a raster edge is far below 2^31
overlay_position(corner, bw, bh, qw, qh, ox, oy) ==
    LET dx == max0_as_u32(ox)
        dy == max0_as_u32(oy)
    IN  CASE corner = "Northwest" -> <<dx, dy>>
          [] corner = "Northeast" -> <<saturating_sub(bw, qw + dx), dy>>
          [] corner = "Southwest" -> <<dx, saturating_sub(bh, qh + dy)>>
          [] corner = "Southeast" -> <<saturating_sub(bw, qw + dx),
                                       saturating_sub(bh, qh + dy)>>
          [] corner = "Custom"    -> <<Min(dx, saturating_sub(bw, qw)),
                                       Min(dy, saturating_sub(bh, qh))>>

\* imageops::overlay(&mut base, &qr_img, x, y)
overlay(base, qr_img, x, y) == [base |-> base, qr |-> qr_img, x |-> x, y |-> y]

\* the RGBA values a raster holds: a rendered QR holds the pixels it was
\* drawn with; of a composite, the pixels of the base the QR does not cover
\* (the pixels under the QR are blends, which the model leaves out)
raster_pixels(img) ==
    IF "qr" \in DOMAIN img
    THEN IF img.x = 0 /\ img.y = 0 /\ img.qr.width >= img.base.width
             /\ img.qr.height >= img.base.height
         THEN {}
         ELSE {img.base.px}
    ELSE {img.mod_rgba, img.bg_rgba}

\* DynamicImage::to_rgb8 on one pixel: the alpha channel is dropped
to_rgb8(px) == SubSeq(px, 1, 3)

\* the outcome of a write that put a file at path
Written(path, encoding, alpha, bg, img, pixels) ==
    [ok |-> TRUE, err |-> <<>>,
     file |-> Some([path |-> path, encoding |-> encoding, alpha |-> alpha, bg |-> bg,
                    img |-> img, pixels |-> pixels])]

\* the outcome of a write that failed
Failed(message) == [ok |-> FALSE, err |-> message, file |-> None]

\* the dimensions a base image on disk can have
BaseDims == {<<1000, 800>>, <<100, 80>>}

\* fs::create_dir_all(dir), with the context of line 899
create_dir_all(dir) == {Ok(dir), Err(<<"Nelze vytvorit slozku: ">> \o dir)}

\* other extensions the image crate maps to a format it writes
OtherImageExts == {<<"b","m","p">>, <<"g","i","f">>}

\* ImageFormat::from_path: the format the image crate picks for a path
image_format_from_path(path) ==
    Let(extension(path), LAMBDA e :
    Let(IF e = None THEN <<>> ELSE to_ascii_lowercase(e[1]), LAMBDA x :
        CASE x = <<"p","n","g">> -> Some("Png")
          [] x \in {<<"j","p","g">>, <<"j","p","e","g">>} -> Some("Jpeg")
          [] x \in {<<"t","i","f">>, <<"t","i","f","f">>} -> Some("Tiff")
          [] x \in OtherImageExts -> Some("Other")
          [] OTHER -> None))

\* the alpha the pixels of a decoded base image can have: a JPEG file holds
\* no alpha channel, so to_rgba8 makes every pixel opaque
BaseAlphas(in_path) ==
    IF image_format_from_path(in_path) = Some("Jpeg") THEN {255} ELSE {255, 128}

\* image::open(in_path).to_rgba8(): the file may be unreadable, or decode to
\* some raster
image_open(in_path) ==
    {Err(<<"Nejde otevrit obrazek: ">> \o in_path)}
        \cup {Ok([path |-> in_path, width |-> d[1], height |-> d[2], px |-> <<200, 100, 50, a>>])
                : d \in BaseDims, a \in BaseAlphas(in_path)}

\* DynamicImage::save(path) of an RGBA raster: the format follows the path's
\* extension; the write itself can fail, and whether the JPEG encoder takes
\* an RGBA raster (dropping alpha) depends on the version of the image crate
image_save(img, path, context) ==
    Let(image_format_from_path(path), LAMBDA f :
        IF f = None
        THEN {Failed(context)}
        ELSE {Failed(context),
              Written(path, f[1], IF f[1] = "Jpeg" THEN "dropped" ELSE "kept", None, img,
                      IF f[1] = "Jpeg" THEN {to_rgb8(px) : px \in raster_pixels(img)}
                      ELSE raster_pixels(img))})

\* save_qr, lines 951-968
save_qr(qr, outp, fmt, bg_opt) ==
    IF fmt \in {"Png", "Tiff"}
    THEN image_save(qr, outp, <<"Ulozeni obrazku selhalo">>)
    ELSE LET bg == IF bg_opt = None THEN <<255, 255, 255>> ELSE bg_opt[1]
         IN  {Failed(<<"io error">>), Failed(<<"JPEG encode selhal">>),
              Written(outp, "Jpeg", "flattened", Some(bg), qr,
                      {flatten_rgba_to_rgb(px, bg) : px \in raster_pixels(qr)})}

\* save_image_rgba, lines 928-946
save_image_rgba(img, outp) ==
    Let(extension(outp), LAMBDA e :
    Let(IF e = None THEN <<>> ELSE to_ascii_lowercase(e[1]), LAMBDA x :
        CASE x \in {<<"j","p","g">>, <<"j","p","e","g">>} ->
               {Failed(<<"io error">>), Failed(<<"JPEG encode selhal">>),
                Written(outp, "Jpeg", "dropped", None, img,
                        {to_rgb8(px) : px \in raster_pixels(img)})}
          [] x \in {<<"p","n","g">>, <<"t","i","f">>, <<"t","i","f","f">>, <<>>} ->
               image_save(img, outp, <<"Ulozeni obrazku selhalo">>)
          [] OTHER ->
               {Failed(<<"Nepodporovana pripona: .">> \o x
                           \o <<" (pouzij .jpg/.jpeg/.png/.tif/.tiff)">>)}))

(***************************************************************************)
(* State                                                                   *)
(***************************************************************************)
\* the fields of AppState (lines 53-98) the job runner reads or writes
VARIABLES url, bulk_urls, output_path, export_dir, out_format, input_path, qr_size_px, corner, offset_x, offset_y, rounding_percent, module_color, background_color, qr_alpha_percent, cut_white_background, last_message, last_saved_path, is_busy, job_rx, result_modal_open

\* workers: the threads that have not been reaped, by job number; chan: the
\* queue of each channel whose receiver is alive
VARIABLES workers, chan

\* bookkeeping of the model: the edits made so far, and whether the last step
\* was a call of start_job ("start_job") or not ("other")
VARIABLES edits, last_op

\* the mode switch and the preview of AppState (lines 55 and 88-90)
VARIABLES bulk_mode, preview, preview_key, preview_error

\* mtime: the modification time of the input file, in seconds, as the file
\* system reports it; last_render: the signature the preview was last
\* rendered for; probe: the last application of a pure function
VARIABLES mtime, last_render, probe

params == <<url, bulk_urls, output_path, export_dir, out_format, input_path, qr_size_px, corner, offset_x, offset_y, rounding_percent, module_color, background_color, qr_alpha_percent, cut_white_background>>

status == <<last_message, last_saved_path, is_busy, job_rx, result_modal_open>>

shown == <<preview, preview_key, preview_error>>

aside == <<bulk_mode, mtime, last_render, probe>>

vars == <<params, status, workers, chan, edits, last_op, shown, aside>>

(***************************************************************************)
(* Values the interactive context enters                                   *)
(***************************************************************************)
\* a payload one byte beyond the capacity of a symbol
LongPayload == [i \in 1..(QrCapacity + 1) |-> "a"]

Urls == {<<>>, <<" ">>, <<" ","a"," ">>, LongPayload}

BulkLines == {<<" ">>, <<" ","a">>, <<"b">>, LongPayload}

OutputPaths == {<<"o",".","j","p","g">>, <<"o">>}

ExportDirs == {<<"d">>}

InputPaths == {<<"i",".","j","p","g">>}

QrSizes == {64, 160}

Offsets == {0, 10}

RoundingPercents == {0, 50}

AlphaPercents == {85, 100}

Colors == {<<0, 0, 0>>, <<255, 255, 255>>}

(***************************************************************************)
(* Init: AppState::default, lines 100-139                                  *)
(***************************************************************************)
Init ==
    /\ url = <<>>
    /\ bulk_urls = <<>>
    /\ output_path = None
    /\ export_dir = None
    /\ out_format = "Png"
    /\ input_path = None
    /\ qr_size_px = 160
    /\ corner = "Southeast"
    /\ offset_x = 10
    /\ offset_y = 10
    /\ rounding_percent = 0
    /\ module_color = <<0, 0, 0>>
    /\ background_color = <<255, 255, 255>>
    /\ qr_alpha_percent = 85
    /\ cut_white_background = TRUE
    /\ last_message = <<>>
    /\ last_saved_path = None
    /\ is_busy = FALSE
    /\ job_rx = None
    /\ result_modal_open = FALSE
    /\ workers = <<>>
    /\ chan = <<>>
    /\ edits = 0
    /\ last_op = "default"
    /\ bulk_mode = FALSE
    /\ preview = None
    /\ preview_key = <<>>
    /\ preview_error = None
    /\ mtime = 0
    /\ last_render = None
    /\ probe = None

(***************************************************************************)
(* The controls of the interactive context: each writes one field.  The   *)
(* controls are the callers of the job runner; the model lets them act in  *)
(* every state (the window of lines 176-523 disables them while is_busy    *)
(* or the result modal is open, which only removes behaviours).            *)
(***************************************************************************)
Edit == edits < MaxEdits /\ edits' = edits + 1 /\ last_op' = "other" /\ UNCHANGED <<status, workers, chan, preview, preview_error, aside>>

\* bump_preview, lines 625-627
bump_preview == preview_key' = <<>>

\* lines 201-211
EditUrl(v) ==
    /\ Edit
    /\ bump_preview
    /\ url # v
    /\ url' = v
    /\ UNCHANGED <<bulk_urls, output_path, export_dir, out_format, input_path, qr_size_px, corner, offset_x, offset_y, rounding_percent, module_color, background_color, qr_alpha_percent, cut_white_background>>

\* lines 188-198: a line is typed at the end of the text
EditBulkUrls(line) ==
    /\ Edit
    /\ bump_preview
    /\ Len(lines(bulk_urls)) < MaxLines
    /\ bulk_urls' = IF bulk_urls = <<>> THEN line ELSE bulk_urls \o <<"\n">> \o line
    /\ UNCHANGED <<url, output_path, export_dir, out_format, input_path, qr_size_px, corner, offset_x, offset_y, rounding_percent, module_color, background_color, qr_alpha_percent, cut_white_background>>

\* lines 219-223
PickExportDir(dir) ==
    /\ Edit
    /\ UNCHANGED preview_key
    /\ export_dir' = Some(dir)
    /\ UNCHANGED <<url, bulk_urls, output_path, out_format, input_path, qr_size_px, corner, offset_x, offset_y, rounding_percent, module_color, background_color, qr_alpha_percent, cut_white_background>>

\* lines 240-242
SelectFormat(fmt) ==
    /\ Edit
    /\ UNCHANGED preview_key
    /\ out_format' = fmt
    /\ UNCHANGED <<url, bulk_urls, output_path, export_dir, input_path, qr_size_px, corner, offset_x, offset_y, rounding_percent, module_color, background_color, qr_alpha_percent, cut_white_background>>

\* lines 246-264
PickOutputPath(path) ==
    /\ Edit
    /\ UNCHANGED preview_key
    /\ output_path' = Some(path)
    /\ UNCHANGED <<url, bulk_urls, export_dir, out_format, input_path, qr_size_px, corner, offset_x, offset_y, rounding_percent, module_color, background_color, qr_alpha_percent, cut_white_background>>

\* lines 285-294
PickInputPath(path) ==
    /\ Edit
    /\ bump_preview
    /\ input_path' = Some(path)
    /\ UNCHANGED <<url, bulk_urls, output_path, export_dir, out_format, qr_size_px, corner, offset_x, offset_y, rounding_percent, module_color, background_color, qr_alpha_percent, cut_white_background>>

\* lines 309-319
SetSize(v) ==
    /\ Edit
    /\ bump_preview
    /\ qr_size_px # v
    /\ qr_size_px' = v
    /\ UNCHANGED <<url, bulk_urls, output_path, export_dir, out_format, input_path, corner, offset_x, offset_y, rounding_percent, module_color, background_color, qr_alpha_percent, cut_white_background>>

\* lines 322-332
SetRounding(v) ==
    /\ Edit
    /\ bump_preview
    /\ rounding_percent # v
    /\ rounding_percent' = v
    /\ UNCHANGED <<url, bulk_urls, output_path, export_dir, out_format, input_path, qr_size_px, corner, offset_x, offset_y, module_color, background_color, qr_alpha_percent, cut_white_background>>

\* lines 335-348
SetModuleColor(c) ==
    /\ Edit
    /\ bump_preview
    /\ module_color # c
    /\ module_color' = c
    /\ UNCHANGED <<url, bulk_urls, output_path, export_dir, out_format, input_path, qr_size_px, corner, offset_x, offset_y, rounding_percent, background_color, qr_alpha_percent, cut_white_background>>

\* lines 351-373
SetBackgroundColor(c) ==
    /\ Edit
    /\ bump_preview
    /\ background_color # c
    /\ background_color' = c
    /\ UNCHANGED <<url, bulk_urls, output_path, export_dir, out_format, input_path, qr_size_px, corner, offset_x, offset_y, rounding_percent, module_color, qr_alpha_percent, cut_white_background>>

\* lines 376-388
SetAlpha(v) ==
    /\ Edit
    /\ bump_preview
    /\ qr_alpha_percent # v
    /\ qr_alpha_percent' = v
    /\ UNCHANGED <<url, bulk_urls, output_path, export_dir, out_format, input_path, qr_size_px, corner, offset_x, offset_y, rounding_percent, module_color, background_color, cut_white_background>>

\* lines 391-396
SetCutWhiteBackground(b) ==
    /\ Edit
    /\ bump_preview
    /\ cut_white_background # b
    /\ cut_white_background' = b
    /\ UNCHANGED <<url, bulk_urls, output_path, export_dir, out_format, input_path, qr_size_px, corner, offset_x, offset_y, rounding_percent, module_color, background_color, qr_alpha_percent>>

\* lines 403-418
SelectCorner(c) ==
    /\ Edit
    /\ bump_preview
    /\ corner' = c
    /\ UNCHANGED <<url, bulk_urls, output_path, export_dir, out_format, input_path, qr_size_px, offset_x, offset_y, rounding_percent, module_color, background_color, qr_alpha_percent, cut_white_background>>

\* lines 428-438 and 453-463
SetOffsetX(v) ==
    /\ Edit
    /\ bump_preview
    /\ offset_x # v
    /\ offset_x' = v
    /\ UNCHANGED <<url, bulk_urls, output_path, export_dir, out_format, input_path, qr_size_px, corner, offset_y, rounding_percent, module_color, background_color, qr_alpha_percent, cut_white_background>>

\* lines 439-449 and 464-474
SetOffsetY(v) ==
    /\ Edit
    /\ bump_preview
    /\ offset_y # v
    /\ offset_y' = v
    /\ UNCHANGED <<url, bulk_urls, output_path, export_dir, out_format, input_path, qr_size_px, corner, offset_x, rounding_percent, module_color, background_color, qr_alpha_percent, cut_white_background>>

(***************************************************************************)
(* start_job, lines 803-924                                                *)
(***************************************************************************)
\* a start_job without the early return
CanStartAlways == TRUE

\* the early return of lines 806-808, negated
CanStart == ~is_busy

\* the values the closure of line 838 moves into the thread, lines 811-832
Capture ==
    [url |-> url, bulk_urls |-> bulk_urls, in_path |-> input_path, out_path |-> output_path,
     export_dir |-> export_dir, out_format |-> out_format, size |-> qr_size_px,
     corner |-> corner, ox |-> offset_x, oy |-> offset_y, alpha |-> qr_alpha_percent,
     mod |-> module_color,
     bg_opt |-> IF cut_white_background THEN None ELSE Some(background_color),
     rounding |-> rounding_percent]

\* a thread at the start of the closure: p holds the captured values, the
\* other fields are the closure's locals, log the operations it has made on
\* the environment, sent the number of messages it has sent
NewWorker(mode) ==
    [mode |-> mode, p |-> Capture, pc |-> "start", payload |-> <<>>, urls |-> <<>>,
     dir |-> <<>>, i |-> 0, ok |-> 0, last |-> None, base |-> None, qr_img |-> None,
     res |-> None, log |-> <<>>, sent |-> 0]

Drop(f, id) == [k \in DOMAIN f \ {id} |-> f[k]]

JobIds == 1..MaxWorkers

\* the job numbers in use
Alive == DOMAIN workers \cup DOMAIN chan

\* the number of the next job: the least one not in use
NewJob == CHOOSE id \in JobIds \ Alive : \A other \in JobIds \ Alive : id <= other

\* a start_job that reports a call made while a job is in flight
start_job_reports_busy(mode) ==
    /\ last_op' = "start_job"
    /\ IF ~CanStart
       THEN /\ last_message' = <<"Pracuji...">>
            /\ UNCHANGED <<params, last_saved_path, is_busy, job_rx, result_modal_open, workers, chan, edits, shown, aside>>
       ELSE /\ workers' = workers @@ (NewJob :> NewWorker(mode))
            /\ chan' = (IF job_rx = None THEN chan ELSE Drop(chan, job_rx[1])) @@ (NewJob :> <<>>)
            /\ job_rx' = Some(NewJob)
            /\ is_busy' = TRUE
            /\ UNCHANGED <<params, last_message, last_saved_path, result_modal_open, edits, shown, aside>>

start_job(mode) ==
    /\ last_op' = "start_job"
    /\ IF ~CanStart
       THEN UNCHANGED <<params, status, workers, chan, edits, shown, aside>>
       ELSE /\ workers' = workers @@ (NewJob :> NewWorker(mode))
            /\ chan' = (IF job_rx = None THEN chan ELSE Drop(chan, job_rx[1])) @@ (NewJob :> <<>>)
            /\ job_rx' = Some(NewJob)
            /\ is_busy' = TRUE
            /\ UNCHANGED <<params, last_message, last_saved_path, result_modal_open, edits, shown, aside>>

(***************************************************************************)
(* The worker thread, lines 838-923: one step per operation on the        *)
(* environment.  Each step is a function of the thread's locals w and of   *)
(* the captured values p, and yields the set of states it can lead to.     *)
(***************************************************************************)
\* a check of emptiness that never fires
never_empty(s) == FALSE

\* str::is_empty
is_empty(s) == s = <<>>

LogEntry(op, arg, n, ok, file) == [op |-> op, arg |-> arg, n |-> n, ok |-> ok, file |-> file]

Logged(w, e) == [w EXCEPT !.log = Append(@, e)]

\* anyhow::bail! and the ? operator: the closure returns the error
Bail(w, message) == [w EXCEPT !.res = Some(Err(message)), !.pc = "send"]

\* lines 885-890
parse_urls(text) ==
    Let(lines(text), LAMBDA ls :
    Let([k \in 1..Len(ls) |-> trim(ls[k])], LAMBDA trimmed :
        SelectNonEmpty(trimmed)))

\* the checks before the first operation: lines 842-846, 874-877, 885-894
validate(w, p) ==
    CASE w.mode = "OverlayIntoImage" ->
           Let(trim(p.url), LAMBDA u :
               IF is_empty(u) THEN {Bail(w, <<"URL je prazdna">>)}
               ELSE IF p.in_path = None THEN {Bail(w, <<"Neni vybran zdrojovy obrazek">>)}
               ELSE {[w EXCEPT !.payload = u, !.pc = "open"]})
      [] w.mode = "QrOnlySingle" ->
           Let(trim(p.url), LAMBDA u :
               IF is_empty(u) THEN {Bail(w, <<"URL je prazdna">>)}
               ELSE {[w EXCEPT !.payload = u, !.pc = "render"]})
      [] w.mode = "QrOnlyBulk" ->
           Let(parse_urls(p.bulk_urls), LAMBDA urls :
               IF urls = <<>> THEN {Bail(w, <<"Vloz aspon jednu URL (po radku).">>)}
               ELSE {[w EXCEPT !.urls = urls, !.pc = "mkdir",
                               !.dir = IF p.export_dir = None THEN default_bulk_dir
                                       ELSE p.export_dir[1]]})

\* lines 847-849
open_base(w, p) ==
    { LET l == Logged(w, LogEntry("open", p.in_path[1], 0, r.ok, None))
      IN  IF r.ok THEN [l EXCEPT !.base = r.val, !.pc = "render"] ELSE Bail(l, r.err)
      : r \in image_open(p.in_path[1]) }

\* lines 897-899
make_dir(w, p) ==
    { LET l == Logged(w, LogEntry("create_dir_all", w.dir, 0, r.ok, None))
      IN  IF r.ok THEN [l EXCEPT !.pc = "render"] ELSE Bail(l, r.err)
      : r \in create_dir_all(w.dir) }

\* the payload the thread is working on
current_url(w) == IF w.mode = "QrOnlyBulk" THEN w.urls[w.i + 1] ELSE w.payload

\* the 1-based number of the line the thread is working on (0 outside bulk)
current_index(w) == IF w.mode = "QrOnlyBulk" THEN w.i + 1 ELSE 0

\* lines 851, 878, 904
render(w, p) ==
    Let(build_qr_image(current_url(w), p.size, p.mod, p.bg_opt, p.alpha, p.rounding), LAMBDA r :
    Let(Logged(w, LogEntry("render", current_url(w), current_index(w), r.ok, None)), LAMBDA l :
        {IF r.ok THEN [l EXCEPT !.qr_img = r.val, !.pc = "save"] ELSE Bail(l, r.err)}))

\* a bulk loop that skips a line whose write failed
bulk_continue_on_error(l, path, o) ==
    [l EXCEPT !.ok = IF o.ok THEN @ + 1 ELSE @,
              !.last = IF o.ok THEN Some(path) ELSE @,
              !.i = @ + 1, !.qr_img = None,
              !.pc = IF l.i + 1 < Len(l.urls) THEN "render" ELSE "finish"]

\* lines 907-909 and the loop of line 903: after a write of the bulk loop
bulk_after_save(l, path, o) ==
    IF o.ok
    THEN [l EXCEPT !.ok = @ + 1, !.last = Some(path), !.i = @ + 1, !.qr_img = None,
                   !.pc = IF l.i + 1 < Len(l.urls) THEN "render" ELSE "finish"]
    ELSE Bail(l, o.err)

\* lines 853-871, 879-881, 905-909
save(w, p) ==
    CASE w.mode = "OverlayIntoImage" ->
           LET base == w.base[1]
               qr   == w.qr_img[1]
           IN  Let(overlay_position(p.corner, base.width, base.height, qr.width, qr.height, p.ox, p.oy), LAMBDA pos :
               Let(overlay(base, qr, pos[1], pos[2]), LAMBDA img :
               Let(IF p.out_path # None THEN p.out_path[1] ELSE default_out_path(p.in_path), LAMBDA outp :
                   { LET l == Logged(w, LogEntry("write", outp, 0, o.ok, o.file))
                     IN  IF o.ok THEN [l EXCEPT !.res = Some(Ok(outp)), !.pc = "send"] ELSE Bail(l, o.err)
                     : o \in save_image_rgba(img, outp) })))
      [] w.mode = "QrOnlySingle" ->
           Let(IF p.out_path # None THEN p.out_path[1] ELSE default_qr_out_path, LAMBDA outp :
               { LET l == Logged(w, LogEntry("write", outp, 0, o.ok, o.file))
                 IN  IF o.ok THEN [l EXCEPT !.res = Some(Ok(outp)), !.pc = "send"] ELSE Bail(l, o.err)
                 : o \in save_qr(w.qr_img[1], outp, p.out_format, p.bg_opt) })
      [] w.mode = "QrOnlyBulk" ->
           Let(make_qr_filename(w.i + 1, current_url(w), p.out_format), LAMBDA fname :
           Let(join(w.dir, fname), LAMBDA path :
               { bulk_after_save(Logged(w, LogEntry("write", path, w.i + 1, o.ok, o.file)), path, o)
                 : o \in save_qr(w.qr_img[1], path, p.out_format, p.bg_opt) }))

\* a bulk job that reports its directory
msg_path_dir(last, dir) == dir

\* line 912
msg_path(last, dir) == IF last = None THEN dir ELSE last[1]

\* lines 912-914: the count goes to standard output, the path is returned
finish(w, p) ==
    LET l == Logged(w, LogEntry("println", w.dir, w.ok, TRUE, None))
    IN  {[l EXCEPT !.res = Some(Ok(msg_path(w.last, w.dir))), !.pc = "send"]}

\* lines 919-922: the JobResult made of the closure's result
job_result(res) == IF res.ok THEN JobResultOk(res.val[1]) ELSE JobResultErr(res.err)

\* a thread that sends its outcome twice
sends_twice(res) == <<job_result(res), job_result(res)>>

\* a thread that reports only success
sends_only_ok(res) == IF res.ok THEN <<job_result(res)>> ELSE <<>>

\* lines 919-922: the messages the thread sends
sends(res) == <<job_result(res)>>

\* a closure that borrows the fields of AppState instead of moving copies in
job_params_live(w) == Capture

\* the values the closure works on: those moved into it
job_params(w) == w.p

WorkerAt(id, pc) == id \in DOMAIN workers /\ workers[id].pc = pc

WorkerBecomes(id, next) ==
    /\ \E n \in next : workers' = [workers EXCEPT ![id] = n]
    /\ last_op' = "other"
    /\ UNCHANGED <<params, status, chan, edits, shown, aside>>

worker_validate(id) == WorkerAt(id, "start") /\ WorkerBecomes(id, validate(workers[id], job_params(workers[id])))

worker_open(id) == WorkerAt(id, "open") /\ WorkerBecomes(id, open_base(workers[id], job_params(workers[id])))

worker_mkdir(id) == WorkerAt(id, "mkdir") /\ WorkerBecomes(id, make_dir(workers[id], job_params(workers[id])))

worker_render(id) == WorkerAt(id, "render") /\ WorkerBecomes(id, render(workers[id], job_params(workers[id])))

worker_save(id) == WorkerAt(id, "save") /\ WorkerBecomes(id, save(workers[id], job_params(workers[id])))

worker_finish(id) == WorkerAt(id, "finish") /\ WorkerBecomes(id, finish(workers[id], job_params(workers[id])))

\* lines 919-923: the send succeeds while the receiver is alive, its failure
\* is ignored; then the thread returns
worker_send(id) ==
    /\ WorkerAt(id, "send")
    /\ LET out == sends(workers[id].res[1])
       IN  /\ workers' = [workers EXCEPT ![id].pc = "done", ![id].sent = @ + Len(out)]
           /\ chan' = IF id \in DOMAIN chan THEN [chan EXCEPT ![id] = @ \o out] ELSE chan
    /\ last_op' = "other"
    /\ UNCHANGED <<params, status, edits, shown, aside>>

(***************************************************************************)
(* update: the poll of lines 144-160 and the result modal of 556-600       *)
(***************************************************************************)
\* a poll that takes an empty channel for a failed job
try_recv_or_default(id) ==
    IF id \in DOMAIN chan /\ chan[id] # <<>> THEN Some(Head(chan[id]))
    ELSE Some(JobResultErr(<<"disconnected">>))

\* Receiver::try_recv
try_recv(id) == IF id \in DOMAIN chan /\ chan[id] # <<>> THEN Some(Head(chan[id])) ELSE None

\* a poll that clears is_busy and keeps the receiver in job_rx
update_poll_keeps_receiver ==
    /\ job_rx # None
    /\ try_recv(job_rx[1]) # None
    /\ LET id  == job_rx[1]
           msg == try_recv(id)[1]
       IN  /\ is_busy' = FALSE
           /\ job_rx' = job_rx
           /\ last_saved_path' = IF msg.tag = "Ok" THEN Some(msg.val) ELSE None
           /\ last_message' = IF msg.tag = "Ok" THEN <<"Ulozeno: ">> \o msg.val
                              ELSE <<"Chyba: ">> \o msg.val
           /\ result_modal_open' = TRUE
           /\ chan' = [chan EXCEPT ![id] = Tail(@)]
           /\ workers' = IF WorkerAt(id, "done") THEN Drop(workers, id) ELSE workers
    /\ last_op' = "other"
    /\ UNCHANGED <<params, edits, shown, aside>>

\* lines 144-160, when a message is there; the receiver is dropped with
\* job_rx, and the thread that sent the message has returned
update_poll ==
    /\ job_rx # None
    /\ try_recv(job_rx[1]) # None
    /\ LET id  == job_rx[1]
           msg == try_recv(id)[1]
       IN  /\ is_busy' = FALSE
           /\ job_rx' = None
           /\ last_saved_path' = IF msg.tag = "Ok" THEN Some(msg.val) ELSE None
           /\ last_message' = IF msg.tag = "Ok" THEN <<"Ulozeno: ">> \o msg.val
                              ELSE <<"Chyba: ">> \o msg.val
           /\ result_modal_open' = TRUE
           /\ chan' = Drop(chan, id)
           /\ workers' = IF WorkerAt(id, "done") THEN Drop(workers, id) ELSE workers
    /\ last_op' = "other"
    /\ UNCHANGED <<params, edits, shown, aside>>

\* lines 556-599: OK or the close box of the modal
close_modal ==
    /\ result_modal_open
    /\ result_modal_open' = FALSE
    /\ last_op' = "other"
    /\ UNCHANGED <<params, last_message, last_saved_path, is_busy, job_rx, workers, chan, edits, shown, aside>>

(***************************************************************************)
(* The preview: ensure_preview, lines 638-659, called in every frame at    *)
(* line 538, with the signature and the renderer it uses                   *)
(***************************************************************************)
\* lines 177-180: the mode switch
SetBulkMode(b) ==
    /\ edits < MaxEdits
    /\ bulk_mode # b
    /\ bulk_mode' = b
    /\ edits' = edits + 1
    /\ last_op' = "other"
    /\ UNCHANGED <<params, status, workers, chan, shown, mtime, last_render, probe>>

\* the input file is written by another program: its modification time moves
TouchInput ==
    /\ input_path # None
    /\ mtime = 0
    /\ mtime' = 1
    /\ last_op' = "other"
    /\ UNCHANGED <<params, status, workers, chan, edits, shown, bulk_mode, last_render, probe>>

\* first_nonempty_line, lines 1062-1070
first_nonempty_line(text) ==
    Let(parse_urls(text), LAMBDA us : IF us = <<>> THEN None ELSE Some(us[1]))

\* format!("{}") of a bool
BoolText(b) == IF b THEN <<"t","r","u","e">> ELSE <<"f","a","l","s","e">>

\* format!("{},{},{}") of the channels of a colour
ColorText(c) == Flatten(<<Decimal(c[1]), <<",">>, Decimal(c[2]), <<",">>, Decimal(c[3])>>)

\* preview_signature, lines 661-699: the text the parameters are formatted
\* to; the name of the corner is one token
preview_signature ==
    LET in_tag == IF bulk_mode THEN <<"b","u","l","k">>
                  ELSE IF input_path # None THEN input_path[1]
                  ELSE <<"q","r","-","o","n","l","y">>
        mticks == IF input_path # None THEN mtime ELSE 0
        bar    == <<"|">>
    IN  Flatten(<<in_tag, bar, Decimal(mticks), bar,
                  IF bulk_mode THEN bulk_urls ELSE url, bar,
                  BoolText(bulk_mode), bar,
                  Decimal(qr_size_px), <<"p","x">>, bar,
                  <<corner>>, bar,
                  Decimal(offset_x), <<",">>, Decimal(offset_y), bar,
                  Decimal(qr_alpha_percent), <<"%">>, bar,
                  <<"c","u","t","=">>, BoolText(cut_white_background), bar,
                  <<"m","o","d","=">>, ColorText(module_color), bar,
                  <<"b","g","=">>, ColorText(background_color), bar,
                  <<"r","o","u","n","d","=">>, Decimal(rounding_percent), bar,
                  <<"f","m","t","=">>, ext(out_format)>>)

\* lines 709-715: the payload of the preview
preview_url ==
    IF bulk_mode
    THEN Let(first_nonempty_line(bulk_urls), LAMBDA f :
             IF f = None THEN Err(<<"Vloz aspon jednu URL (po radku)">>) ELSE Ok(f[1]))
    ELSE IF is_empty(trim(url)) THEN Err(<<"Zadej URL pro QR">>) ELSE Ok(trim(url))

\* lines 759-766, 768, 779-780: (v * scale).round() with
\* scale = min(1200 / bw, 1200 / bh, 1.0)
preview_scaled(v, bw, bh) ==
    IF Max(bw, bh) <= 1200 THEN v
    ELSE (2 * v * 1200 + Max(bw, bh)) \div (2 * Max(bw, bh))

\* lines 765-766 and 780-795: where the preview puts a QR of qw x qh on a
\* base of bw x bh for the offsets ox and oy
preview_overlay_position(c, bw, bh, qw, qh, ox, oy) ==
    LET disp_w == Max(preview_scaled(bw, bw, bh), 1)
        disp_h == Max(preview_scaled(bh, bw, bh), 1)
        dx     == Min(preview_scaled(max0_as_u32(ox), bw, bh), disp_w - 1)
        dy     == Min(preview_scaled(max0_as_u32(oy), bw, bh), disp_h - 1)
    IN  overlay_position(c, disp_w, disp_h, qw, qh, dx, dy)

\* lines 752-800: the preview of an overlay on the decoded base image
render_preview_overlay(payload, base) ==
    LET bw     == base.width
        bh     == base.height
        disp_w == Max(preview_scaled(bw, bw, bh), 1)
        disp_h == Max(preview_scaled(bh, bw, bh), 1)
        qr_size_scaled == Min(Max(preview_scaled(qr_size_px, bw, bh), 1), 4096)
        qr     == build_qr_image(payload, qr_size_scaled, module_color,
                                 IF cut_white_background THEN None ELSE Some(background_color),
                                 qr_alpha_percent, rounding_percent)
    IN  IF ~qr.ok THEN Err(qr.err)
        ELSE LET pos == preview_overlay_position(corner, bw, bh, qr.val[1].width,
                                                 qr.val[1].height, offset_x, offset_y)
             IN  Ok(overlay([base EXCEPT !.width = disp_w, !.height = disp_h],
                            qr.val[1], pos[1], pos[2]))

\* render_preview_color_image, lines 704-801: the outcomes it can have
render_preview_color_image ==
    IF ~preview_url.ok THEN {Err(preview_url.err)}
    ELSE IF bulk_mode \/ input_path = None
    THEN {build_qr_image(preview_url.val[1], qr_size_px, module_color,
                         IF cut_white_background THEN None ELSE Some(background_color),
                         qr_alpha_percent, rounding_percent)}
    ELSE {IF b.ok THEN render_preview_overlay(preview_url.val[1], b.val[1]) ELSE Err(b.err)
          : b \in image_open(input_path[1])}

\* lines 643-658: the key is stored, then the preview is rendered
render_preview ==
    /\ preview_key' = preview_signature
    /\ last_render' = Some(preview_signature)
    /\ last_op' = "render"
    /\ \E r \in render_preview_color_image :
          IF r.ok
          THEN preview' = Some(r.val[1]) /\ preview_error' = None
          ELSE preview' = None /\ preview_error' = Some(<<"Nahled nelze vytvorit: ">> \o r.err)
    /\ UNCHANGED <<params, status, workers, chan, edits, bulk_mode, mtime, probe>>

\* an ensure_preview without the early return
ensure_preview_every_frame == render_preview

\* ensure_preview, lines 638-659
ensure_preview ==
    IF preview_key = preview_signature
    THEN /\ last_op' = "other"
         /\ UNCHANGED <<params, status, workers, chan, edits, shown, aside>>
    ELSE render_preview

\* the controls whose values decide what a job does and where it writes
PathEdit ==
    \/ \E v \in Urls : EditUrl(v)
    \/ \E l \in BulkLines : EditBulkUrls(l)
    \/ \E d \in ExportDirs : PickExportDir(d)
    \/ \E f \in OutputFormat : SelectFormat(f)
    \/ \E q \in OutputPaths : PickOutputPath(q)
    \/ \E q \in InputPaths : PickInputPath(q)

\* the controls of the look and the place of the QR
LookEdit ==
    \/ \E v \in QrSizes : SetSize(v)
    \/ \E v \in RoundingPercents : SetRounding(v)
    \/ \E c \in Colors : SetModuleColor(c)
    \/ \E c \in Colors : SetBackgroundColor(c)
    \/ \E v \in AlphaPercents : SetAlpha(v)
    \/ \E b \in BOOLEAN : SetCutWhiteBackground(b)
    \/ \E c \in Corner : SelectCorner(c)
    \/ \E v \in Offsets : SetOffsetX(v)
    \/ \E v \in Offsets : SetOffsetY(v)

WorkerStep ==
    \/ \E id \in JobIds : worker_validate(id)
    \/ \E id \in JobIds : worker_open(id)
    \/ \E id \in JobIds : worker_mkdir(id)
    \/ \E id \in JobIds : worker_render(id)
    \/ \E id \in JobIds : worker_save(id)
    \/ \E id \in JobIds : worker_finish(id)
    \/ \E id \in JobIds : worker_send(id)

\* the job runner under the controls that decide a job's course
Next ==
    \/ PathEdit
    \/ \E m \in SaveMode : Alive # JobIds /\ start_job(m)
    \/ WorkerStep
    \/ update_poll
    \/ close_modal

\* the job runner under every control, up to the first outcome
NextAllEdits ==
    \/ PathEdit
    \/ LookEdit
    \/ \E m \in SaveMode : Alive # JobIds /\ last_message = <<>> /\ start_job(m)
    \/ WorkerStep
    \/ update_poll

Spec == Init /\ [][Next]_vars

SpecAllEdits == Init /\ [][NextAllEdits]_vars

\* line 176: the controls take input while no job is in flight and the
\* result modal is closed
UiEnabled == ~is_busy /\ ~result_modal_open

\* the job runner under the controls as the window enables them; start_job
\* is still called in every state
NextUi ==
    \/ UiEnabled /\ PathEdit
    \/ \E m \in SaveMode : Alive # JobIds /\ start_job(m)
    \/ WorkerStep
    \/ update_poll
    \/ close_modal

\* the scheduler runs every thread, and update is invoked again and again
FairSpec == Init /\ [][NextUi]_vars /\ WF_vars(WorkerStep) /\ WF_vars(update_poll)

(***************************************************************************)
(* The pure functions of the worker, each applied once to arguments drawn  *)
(* from the values the window and the file system can hand it.  probe      *)
(* records the application: the function, its arguments, what it returned. *)
(***************************************************************************)
Applied(fn, arg, ret) ==
    /\ probe = None
    /\ probe' = Some([fn |-> fn, arg |-> arg, ret |-> ret])
    /\ UNCHANGED <<params, status, workers, chan, edits, last_op, shown, bulk_mode, mtime, last_render>>

Probed(fn) == probe # None /\ probe[1].fn = fn

\* the offsets the i32 fields offset_x and offset_y can hold: the sliders of
\* lines 428-474 run from 0 to the width or height of the base image
PlaceOffsets == {-5, 0, 10, 50, 1000}

\* lines 853-865 on a base of dimensions d and a QR of edge q
apply_overlay_position(c, d, q, ox, oy) ==
    Applied("overlay_position", <<c, d[1], d[2], q, q, ox, oy>>,
            overlay_position(c, d[1], d[2], q, q, ox, oy))

\* colours of a source pixel and of a background
FlattenColors == {<<0, 0, 0>>, <<255, 255, 255>>, <<1, 127, 254>>, <<200, 100, 50>>}

\* lines 1052-1057 on a pixel of colour c and alpha a
apply_flatten_rgba_to_rgb(c, a, bg) ==
    Applied("flatten_rgba_to_rgb", <<c \o <<a>>, bg>>, flatten_rgba_to_rgb(c \o <<a>>, bg))

\* edges build_qr_image can be called with: a u32, so 0 as well
RenderSizes == {0} \cup QrSizes

\* lines 973-1045
apply_build_qr_image(u, size, bg, p) ==
    Applied("build_qr_image", <<u, size, bg, p>>,
            build_qr_image(u, size, <<0, 0, 0>>, bg, p, 0))

\* widths of the symbols of versions 1, 2 and 3
QrWidths == {21, 25, 29}

GeometrySizes == {0, 1, 28, 29, 30, 64, 160, 2048}

\* lines 986-992 for a symbol of width wm
apply_module_ss(size, wm) ==
    Applied("module_ss", <<size, wm>>, <<module_ss(size, wm), canvas_ss(size, wm)>>)

\* the matrices of width n: the sets of their dark modules
Matrices(n) == SUBSET ((0 .. n - 1) \X (0 .. n - 1))

\* edges that give a small matrix module edges of 4, 5, 6 and 8
TileSizes == {0, 12, 15, 20}

\* lines 986-1040 for a matrix of width n with the dark modules dark
apply_draw_modules(n, dark, size, rounding) ==
    LET m == module_ss(size, n)
    IN  Applied("draw_modules", <<n, dark, size, rounding>>,
                [module_ss |-> m, canvas_ss |-> canvas_ss(size, n),
                 painted |-> draw_modules(dark, m, corner_radius(m, rounding))])

\* payloads of bulk lines: a URL with a host and a path, hosts that carry
\* underscores and dashes, a text of non-ASCII characters only, and a text whose
\* 40th sanitised character is a dash
SlugPayloads ==
    { <<>>,
      <<"U+00E9">>,
      <<"h","t","t","p",":","/","/","e","x",".","o","r","g","/","p","?","q">>,
      <<"a","_","_","b">>,
      <<"a","_","/","b">>,
      <<"_","-","a">>,
      [i \in 1..(SlugMaxLen - 1) |-> "a"] \o <<"-","b">> }

\* lines 1092-1101 on line index1 of a bulk job
apply_make_qr_filename(index1, u, fmt) ==
    Applied("make_qr_filename", <<index1, u, fmt>>,
            [slug |-> make_slug_from_url(u), name |-> make_qr_filename(index1, u, fmt)])

\* module edges of the supersampled canvas
TileEdges == 1..8

\* lines 1012-1037 for the dark module (x, y) of edge w with the radius r
apply_draw_module(x, y, w, r) ==
    Applied("draw_module", <<x, y, w, r>>, draw_module(x, y, w, r))

\* base images that are shown at scale 1 and one that is shown at half scale
PreviewDims == BaseDims \cup {<<2400, 1200>>}

\* the values the offset sliders of lines 428-474 can give on an axis of
\* length n: they run over 0..=n
SliderOffsets(n) == {0, 10, n - 1, n}

\* lines 759-795 and lines 853-865 for the same anchor, base, QR edge and offsets
apply_preview_position(c, d, q, ox, oy) ==
    LET qs == Min(Max(preview_scaled(q, d[1], d[2]), 1), 4096)
    IN  Applied("preview_position", <<c, d, q, ox, oy>>,
                [preview |-> preview_overlay_position(c, d[1], d[2], qs, qs, ox, oy),
                 job     |-> overlay_position(c, d[1], d[2], q, q, ox, oy)])

NextProbe ==
    \/ \E c \in Corner, d \in BaseDims, q \in QrSizes, ox \in PlaceOffsets, oy \in PlaceOffsets :
           apply_overlay_position(c, d, q, ox, oy)
    \/ \E c \in FlattenColors, a \in 0..255, bg \in FlattenColors :
           apply_flatten_rgba_to_rgb(c, a, bg)
    \/ \E u \in Urls, size \in RenderSizes, bg \in {None} \cup {Some(c) : c \in Colors}, p \in 0..100 :
           apply_build_qr_image(u, size, bg, p)
    \/ \E size \in GeometrySizes, wm \in QrWidths : apply_module_ss(size, wm)
    \/ \E n \in 1..MaxMatrixWidth, size \in TileSizes, rounding \in {0, 25, 50} :
           \E dark \in Matrices(n) : apply_draw_modules(n, dark, size, rounding)
    \/ \E index1 \in {1, 12}, u \in SlugPayloads, fmt \in OutputFormat :
           apply_make_qr_filename(index1, u, fmt)
    \/ \E x \in 0..1, y \in 0..1, w \in TileEdges :
           \E r \in 1..(w \div 2) : apply_draw_module(x, y, w, r)
    \/ \E c \in Corner, d \in PreviewDims, q \in QrSizes :
           \E ox \in SliderOffsets(d[1]), oy \in SliderOffsets(d[2]) :
               apply_preview_position(c, d, q, ox, oy)

ProbeSpec == Init /\ [][NextProbe]_vars

\* the window without jobs: every control, the clock of the input file, and
\* the frames that draw the preview
NextPreview ==
    \/ PathEdit
    \/ LookEdit
    \/ \E b \in BOOLEAN : SetBulkMode(b)
    \/ TouchInput
    \/ ensure_preview

PreviewSpec == Init /\ [][NextPreview]_vars

(***************************************************************************)
(* One job of each mode from every setting of the controls that decide     *)
(* what is written and how: the output path, the format, the input image   *)
(* and the background of the QR.                                           *)
(***************************************************************************)
SaveOutputPaths ==
    OutputPaths \cup {<<"o",".","p","n","g">>, <<"o",".","b","m","p">>, <<"o",".","x","y","z">>}

SaveInputPaths == InputPaths \cup {<<"i",".","p","n","g">>}

\* the window after the controls have been set
InitSave ==
    /\ url = <<" ", "a", " ">>
    /\ bulk_urls = <<"b">>
    /\ output_path \in {None} \cup {Some(q) : q \in SaveOutputPaths}
    /\ export_dir = None
    /\ out_format \in OutputFormat
    /\ input_path \in {None} \cup {Some(q) : q \in SaveInputPaths}
    /\ qr_size_px = 160
    /\ corner = "Southeast"
    /\ offset_x = 10
    /\ offset_y = 10
    /\ rounding_percent = 0
    /\ module_color = <<0, 0, 0>>
    /\ background_color \in Colors
    /\ qr_alpha_percent = 85
    /\ cut_white_background \in BOOLEAN
    /\ last_message = <<>>
    /\ last_saved_path = None
    /\ is_busy = FALSE
    /\ job_rx = None
    /\ result_modal_open = FALSE
    /\ workers = <<>>
    /\ chan = <<>>
    /\ edits = 0
    /\ last_op = "other"
    /\ bulk_mode = FALSE
    /\ preview = None
    /\ preview_key = <<>>
    /\ preview_error = None
    /\ mtime = 0
    /\ last_render = None
    /\ probe = None

\* one job, its thread, the poll and the modal
NextSave ==
    \/ \E m \in SaveMode : Alive = {} /\ last_message = <<>> /\ start_job(m)
    \/ WorkerStep
    \/ update_poll
    \/ close_modal

SaveSpec == InitSave /\ [][NextSave]_vars

(***************************************************************************)
(* What a thread can do, as a function of the values moved into it         *)
(***************************************************************************)
\* the step of the closure of lines 840-917 a thread at w.pc takes
StepOf(w, p) ==
    CASE w.pc = "start"  -> validate(w, p)
      [] w.pc = "open"   -> open_base(w, p)
      [] w.pc = "mkdir"  -> make_dir(w, p)
      [] w.pc = "render" -> render(w, p)
      [] w.pc = "save"   -> save(w, p)
      [] w.pc = "finish" -> finish(w, p)
      [] OTHER           -> {}

RECURSIVE Runs(_, _)
\* the states in which the closure of lines 840-917 can return, from w on
Runs(w, p) == IF w.pc = "send" THEN {w} ELSE UNION {Runs(n, p) : n \in StepOf(w, p)}

\* a thread that has run the closure to its end
Returned(w) == w.pc \in {"send", "done"}

\* the entries of a log made by op
Entries(log, op) == SelectSeq(log, LAMBDA e : e.op = op)

(***************************************************************************)
(* C1                                                                      *)
(***************************************************************************)
\* the receiver of a thread lives as long as the thread does; a thread has
\* sent nothing before it returns and one message, its JobResult, after; a
\* thread that has not sent can take a step
OneResultInv ==
    \A id \in DOMAIN workers :
        LET w == workers[id]
        IN  /\ id \in DOMAIN chan
            /\ w.sent = (IF w.pc = "done" THEN 1 ELSE 0)
            /\ chan[id] = (IF w.pc = "done" THEN <<job_result(w.res[1])>> ELSE <<>>)
            /\ (w.res # None) = Returned(w)
            /\ w.pc \notin {"send", "done"} => StepOf(w, w.p) # {}

\* the JobResult of job id is on its channel
Delivered(id) ==
    /\ id \in DOMAIN workers /\ id \in DOMAIN chan
    /\ workers[id].pc = "done"
    /\ Len(chan[id]) = 1

\* C1: every job started by start_job delivers exactly one JobResult on its
\* channel: never two (at every moment a thread has sent no message before it
\* returns and exactly its JobResult after, in every mode and on every path),
\* and never zero (under fair scheduling a started thread gets to the state
\* where its one message is on the channel).
ExactlyOneResult ==
    /\ []OneResultInv
    /\ (\E id \in DOMAIN workers : ~Delivered(id))
          ~> (\E id \in DOMAIN workers : Delivered(id))

\* a bulk job that wrote two files has delivered one JobResult
ExactlyOneResultWitness ==
    \E id \in DOMAIN workers :
        /\ Delivered(id)
        /\ workers[id].mode = "QrOnlyBulk"
        /\ workers[id].ok = 2
        /\ chan[id] = <<JobResultOk(workers[id].last[1])>>

(***************************************************************************)
(* C2                                                                      *)
(***************************************************************************)
\* the threads that have not sent their outcome
Running == {id \in DOMAIN workers : workers[id].pc # "done"}

\* C2: after any interleaving of start_job calls, worker steps and polls, at
\* most one worker that has not yet sent its outcome exists.
AtMostOneRunning == Cardinality(Running) <= 1

\* a job is running that was started after an earlier outcome was consumed
AtMostOneRunningWitness ==
    /\ Cardinality(Running) = 1
    /\ last_message # <<>>
    /\ \E id \in Running : workers[id].pc \notin {"start", "send"}

(***************************************************************************)
(* C3                                                                      *)
(***************************************************************************)
\* C3: a call of start_job while is_busy is true is a no-op: it spawns no
\* worker, does not replace job_rx, and leaves is_busy, last_message,
\* last_saved_path and every parameter field unchanged.
StartJobWhileBusyIsNoOp ==
    [][(is_busy /\ last_op' = "start_job")
          => UNCHANGED <<params, status, workers, chan, edits>>]_vars

\* start_job has just been called while a thread was in the middle of its job
StartJobWhileBusyWitness ==
    /\ is_busy
    /\ last_op = "start_job"
    /\ \E id \in DOMAIN workers : workers[id].pc \in {"render", "save"}

(***************************************************************************)
(* C4                                                                      *)
(***************************************************************************)
\* the outcome of the last job has been consumed
Consumed == ~is_busy /\ job_rx = None /\ last_message # <<>> /\ CanStart

\* C4: under fair scheduling of the worker and of the poll in update, a state
\* with is_busy = true is always eventually followed by a state where the
\* outcome has been consumed and is_busy = false, in which start_job starts a
\* new job, after a success or an error.
BusyLeadsToConsumed == is_busy ~> Consumed

\* a job is in flight that was submitted after an error was reported
BusyLeadsToConsumedWitness ==
    /\ is_busy
    /\ last_saved_path = None
    /\ last_message # <<>>
    /\ SubSeq(last_message, 1, 1) = <<"Chyba: ">>
    /\ \E id \in DOMAIN workers : workers[id].pc = "start"

(***************************************************************************)
(* C5                                                                      *)
(***************************************************************************)
\* C5: is_busy goes from true to false only in the step of update that
\* receives the job's outcome from the channel of job_rx and shows it; no
\* worker step, edit, start_job or close of the modal clears it.
BusyClearedOnlyByPoll ==
    [][(is_busy /\ ~is_busy')
          => /\ job_rx # None
             /\ job_rx[1] \in DOMAIN chan
             /\ chan[job_rx[1]] # <<>>
             /\ job_rx' = None
             /\ job_rx[1] \notin DOMAIN chan'
             /\ result_modal_open'
             /\ last_message' = (IF Head(chan[job_rx[1]]).tag = "Ok" THEN <<"Ulozeno: ">>
                                 ELSE <<"Chyba: ">>) \o Head(chan[job_rx[1]]).val
             /\ UNCHANGED params]_vars

\* a job has been started, its outcome consumed, and the modal closed, while
\* a later job is in flight
BusyClearedOnlyByPollWitness ==
    /\ is_busy
    /\ last_message # <<>>
    /\ ~result_modal_open
    /\ last_op = "other"

(***************************************************************************)
(* C6                                                                      *)
(***************************************************************************)
\* the thread of job `mode` at the start of the closure, holding p
Started(mode, p) == [NewWorker(mode) EXCEPT !.p = p]

\* C6: the outcome of a job and the operations it made on files (its log)
\* are among those the values at the moment of start_job allow, whatever has
\* been edited since: every thread that has returned is in a state the
\* closure reaches from the captured values alone, and the message on its
\* channel is made of that state.
CopyOnStartIsolation ==
    \A id \in DOMAIN workers :
        LET w == workers[id]
        IN  Returned(w) =>
               /\ [w EXCEPT !.pc = "send", !.sent = 0] \in Runs(Started(w.mode, w.p), w.p)
               /\ w.pc = "done" /\ id \in DOMAIN chan => chan[id] = <<job_result(w.res[1])>>

\* a job has written its file although the size was edited after it started
CopyOnStartIsolationWitness ==
    \E id \in DOMAIN workers :
        /\ workers[id].pc = "done"
        /\ workers[id].res[1].ok
        /\ workers[id].log # <<>>
        /\ workers[id].mode = "QrOnlySingle"
        /\ Capture.size # workers[id].p.size

(***************************************************************************)
(* C7                                                                      *)
(***************************************************************************)
\* every line of text is blank
AllBlank(text) == \A k \in 1..Len(lines(text)) : trim(lines(text)[k]) = <<>>

\* the job of `mode` over p is one the validation rejects
Invalid(mode, p) ==
    CASE mode = "OverlayIntoImage" -> trim(p.url) = <<>> \/ p.in_path = None
      [] mode = "QrOnlySingle"     -> trim(p.url) = <<>>
      [] mode = "QrOnlyBulk"       -> AllBlank(p.bulk_urls)

\* C7: a job the validation rejects ends in a Failed outcome without having
\* opened, created or written any file or directory and without having
\* rendered a QR: its log stays empty, and it goes from its start to the send
\* of an Err.
ValidationBeforeIO ==
    \A id \in DOMAIN workers :
        LET w == workers[id]
        IN  Invalid(w.mode, w.p) =>
               /\ w.log = <<>>
               /\ w.pc \in {"start", "send", "done"}
               /\ Returned(w) => ~w.res[1].ok
               /\ w.pc = "done" /\ id \in DOMAIN chan =>
                     chan[id] = <<JobResultErr(w.res[1].err)>>

\* an overlay job with a payload but no base image, and a bulk job over
\* blank lines only, have failed
ValidationBeforeIOWitness ==
    \E id \in DOMAIN workers :
        LET w == workers[id]
        IN  /\ w.pc = "done"
            /\ Invalid(w.mode, w.p)
            /\ \/ w.mode = "OverlayIntoImage" /\ trim(w.p.url) # <<>> /\ w.p.url # trim(w.p.url)
               \/ w.mode = "QrOnlyBulk" /\ w.p.bulk_urls # <<>>

(***************************************************************************)
(* C8                                                                      *)
(***************************************************************************)
\* the non-blank lines of text, trimmed, in order
NonBlankLines(text) ==
    LET ls == lines(text)
        F[k \in 0..Len(ls)] ==
            IF k = 0 THEN <<>>
            ELSE IF trim(ls[k]) = <<>> THEN F[k - 1] ELSE Append(F[k - 1], trim(ls[k]))
    IN  F[Len(ls)]

\* the errors the write of the bulk loop can return for line k of job w
WriteErrors(w, k) ==
    LET u    == NonBlankLines(w.p.bulk_urls)[k]
        path == join(w.dir, make_qr_filename(k, u, w.p.out_format))
        r    == build_qr_image(u, w.p.size, w.p.mod, w.p.bg_opt, w.p.alpha, w.p.rounding)
    IN  {o.err : o \in {x \in save_qr(r.val[1], path, w.p.out_format, w.p.bg_opt) : ~x.ok}}

\* the error the render of the bulk loop returns for line k of job w
RenderError(w, k) ==
    build_qr_image(NonBlankLines(w.p.bulk_urls)[k], w.p.size, w.p.mod, w.p.bg_opt,
                   w.p.alpha, w.p.rounding).err

\* job w failed while rendering or writing a line: entry j of its log
LineFailedAt(w, j) == w.log[j].op \in {"render", "write"} /\ ~w.log[j].ok

\* C8: in bulk mode a failure while rendering or writing the k-th non-blank
\* line aborts the batch: the failed operation is the last the thread makes,
\* no line after k is rendered or written, and the outcome is Err with that
\* line's error.
BulkAbortsOnFailure ==
    \A id \in DOMAIN workers :
        LET w == workers[id]
        IN  w.mode = "QrOnlyBulk" =>
              \A j \in 1..Len(w.log) :
                 LineFailedAt(w, j) =>
                    /\ j = Len(w.log)
                    /\ \A m \in 1..Len(w.log) : w.log[m].n <= w.log[j].n
                    /\ Returned(w)
                    /\ ~w.res[1].ok
                    /\ w.res[1].err # <<>>
                    /\ w.log[j].op = "render" => w.res[1].err = RenderError(w, w.log[j].n)
                    /\ w.log[j].op = "write" => w.res[1].err \in WriteErrors(w, w.log[j].n)
                    /\ w.pc = "done" /\ id \in DOMAIN chan =>
                          chan[id] = <<JobResultErr(w.res[1].err)>>

\* a bulk job has written its first line, failed on its second, and sent Err
BulkAbortsOnFailureWitness ==
    \E id \in DOMAIN workers :
        LET w == workers[id]
        IN  /\ w.mode = "QrOnlyBulk"
            /\ w.pc = "done"
            /\ w.ok = 1
            /\ LineFailedAt(w, Len(w.log))
            /\ w.log[Len(w.log)].n = 2
            /\ chan[id][1].tag = "Err"

(***************************************************************************)
(* C9                                                                      *)
(***************************************************************************)
\* C9: a successful bulk job over n non-blank lines makes, after creating
\* its directory, render 1, write 1, ..., render n, write n in that order;
\* the k-th write succeeds, carries the index k, renders the k-th non-blank
\* line, and goes to the file make_qr_filename(k, line, format) directly
\* inside the directory; the n names are pairwise distinct.
BulkWritesInOrder ==
    \A id \in DOMAIN workers :
        LET w  == workers[id]
            u  == NonBlankLines(w.p.bulk_urls)
            n  == Len(u)
            ws == Entries(w.log, "write")
        IN  (w.mode = "QrOnlyBulk" /\ Returned(w) /\ w.res[1].ok) =>
              /\ n >= 1
              /\ Len(ws) = n
              /\ Len(Entries(w.log, "render")) = n
              /\ Len(w.log) = 2 * n + 2
              /\ \A k \in 1..n :
                    /\ w.log[2 * k] = LogEntry("render", u[k], k, TRUE, None)
                    /\ w.log[2 * k + 1] = ws[k]
                    /\ ws[k].ok /\ ws[k].n = k
                    /\ ws[k].file[1].path = ws[k].arg
                    /\ ws[k].file[1].img.symbol = u[k]
                    /\ parent(ws[k].arg) = w.dir
                    /\ file_name(ws[k].arg) = make_qr_filename(k, u[k], w.p.out_format)
                    /\ SubSeq(file_name(ws[k].arg), 1, 6) = <<"q","r","_">> \o ZeroPad(Decimal(k), 3)
              /\ \A k1, k2 \in 1..n : k1 # k2 => ws[k1].arg # ws[k2].arg

\* a bulk job over a text with a blank line or a repeated payload has
\* written two files
BulkWritesInOrderWitness ==
    \E id \in DOMAIN workers :
        LET w == workers[id]
            u == NonBlankLines(w.p.bulk_urls)
        IN  /\ w.mode = "QrOnlyBulk"
            /\ w.pc = "done"
            /\ w.res[1].ok
            /\ Len(u) = 2
            /\ u[1] = u[2]

(***************************************************************************)
(* C10                                                                     *)
(***************************************************************************)
\* the message job id has delivered
DeliveredMsg(id) == chan[id][1]

\* job id is a bulk job that succeeded and delivered its outcome
BulkSucceeded(id) ==
    /\ Delivered(id)
    /\ workers[id].mode = "QrOnlyBulk"
    /\ workers[id].res[1].ok

\* C10, as stated: on success of a bulk job the outcome delivered reports
\* both the count of files written and the path of the last file written.
OutcomeReportsCountAndPath ==
    \A id \in DOMAIN workers :
        BulkSucceeded(id) =>
           /\ "count" \in DOMAIN DeliveredMsg(id)
           /\ DeliveredMsg(id).val = workers[id].last[1]

\* C10, amended: on success of a bulk job the outcome delivered is Ok of the
\* path of the last file written, and of nothing else; the count of files
\* written only goes to standard output.
OutcomeReportsLastPath ==
    \A id \in DOMAIN workers :
        BulkSucceeded(id) =>
           LET w  == workers[id]
               ws == Entries(w.log, "write")
           IN  /\ DOMAIN DeliveredMsg(id) = {"tag", "val"}
               /\ DeliveredMsg(id).tag = "Ok"
               /\ DeliveredMsg(id).val = ws[Len(ws)].arg
               /\ w.log[Len(w.log)] = LogEntry("println", w.dir, Len(ws), TRUE, None)

\* a bulk job that wrote two files has delivered the path of the second
OutcomeReportsLastPathWitness ==
    \E id \in DOMAIN workers :
        /\ BulkSucceeded(id)
        /\ Len(Entries(workers[id].log, "write")) = 2
        /\ DeliveredMsg(id).val = workers[id].log[5].arg

(***************************************************************************)
(* C11                                                                     *)
(***************************************************************************)
\* the rectangle [x, x+qw) x [y, y+qh) lies inside [0, bw) x [0, bh)
InsideBase(bw, bh, qw, qh, pos) == pos[1] + qw <= bw /\ pos[2] + qh <= bh

\* C11: for every anchor, all dimensions of base and QR and all offsets, the
\* position the overlay job computes puts the QR rectangle fully inside the
\* base image.  The code does not do that: an anchor at the north or west
\* edge takes the offset unclamped on that axis, and a QR larger than the
\* base cannot lie inside it.
PlacedInsideBase ==
    Probed("overlay_position") =>
        LET a == probe[1].arg
        IN  InsideBase(a[2], a[3], a[4], a[5], probe[1].ret)

\* a QR that fits the base, anchored north-west, is pushed over the east edge
PlacedInsideBaseWitness ==
    /\ Probed("overlay_position")
    /\ probe[1].arg = <<"Northwest", 100, 80, 64, 64, 50, 10>>
    /\ probe[1].ret = <<50, 10>>

(***************************************************************************)
(* C12                                                                     *)
(***************************************************************************)
\* subtraction that stops at zero
Monus(a, b) == IF a - b < 0 THEN 0 ELSE a - b

\* the reference placement of an anchor, for offsets dx, dy >= 0
ReferencePosition(c, bw, bh, qw, qh, dx, dy) ==
    CASE c = "Northwest" -> <<dx, dy>>
      [] c = "Northeast" -> <<Monus(Monus(bw, qw), dx), dy>>
      [] c = "Southwest" -> <<dx, Monus(Monus(bh, qh), dy)>>
      [] c = "Southeast" -> <<Monus(Monus(bw, qw), dx), Monus(Monus(bh, qh), dy)>>
      [] c = "Custom"    -> <<IF dx < Monus(bw, qw) THEN dx ELSE Monus(bw, qw),
                              IF dy < Monus(bh, qh) THEN dy ELSE Monus(bh, qh)>>

\* C12: the position the overlay job computes equals the reference formula
\* of its anchor, every subtraction stopping at zero, with a negative offset
\* field counting as zero; 1000x800, a QR of 160, Southeast and offset
\* (10, 10) give (830, 630).
PositionMatchesReference ==
    Probed("overlay_position") =>
        LET a  == probe[1].arg
            dx == IF a[6] < 0 THEN 0 ELSE a[6]
            dy == IF a[7] < 0 THEN 0 ELSE a[7]
        IN  /\ probe[1].ret = ReferencePosition(a[1], a[2], a[3], a[4], a[5], dx, dy)
            /\ a = <<"Southeast", 1000, 800, 160, 160, 10, 10>> => probe[1].ret = <<830, 630>>

\* a QR larger than the base, anchored south-east: the position is (0, 0)
PositionMatchesReferenceWitness ==
    /\ Probed("overlay_position")
    /\ probe[1].arg = <<"Southeast", 100, 80, 160, 160, 10, 10>>
    /\ probe[1].ret = <<0, 0>>

(***************************************************************************)
(* C13                                                                     *)
(***************************************************************************)
\* the write operations a thread has made that put a file on disk
FilesWritten(w) == {e.file[1] : e \in {x \in Range(Entries(w.log, "write")) : x.ok}}

\* the background configured for a job, white if none
ConfiguredBackground(p) == IF p.bg_opt = None THEN <<255, 255, 255>> ELSE p.bg_opt[1]

\* C13: whenever a job writes a JPEG file (save_qr in single and bulk mode,
\* save_image_rgba in overlay mode with .jpg/.jpeg) every pixel is flattened
\* against the configured background, white if none, by
\* out = (src * alpha + bg * (255 - alpha) + 127) / 255; a file of another
\* encoding receives the RGBA pixels unchanged.  The code flattens only in
\* the JPEG branch of save_qr.
JpegIsFlattened ==
    \A id \in DOMAIN workers : \A f \in FilesWritten(workers[id]) :
        LET bg == ConfiguredBackground(workers[id].p)
        IN  f.pixels = IF f.encoding = "Jpeg"
                       THEN {[c \in 1..3 |->
                                (px[c] * px[4] + bg[c] * (255 - px[4]) + 127) \div 255]
                             : px \in raster_pixels(f.img)}
                       ELSE raster_pixels(f.img)

\* an overlay job on a translucent PNG base writes o.jpg with the colour of
\* the base pixels, not with their blend with white
JpegIsFlattenedWitness ==
    \E id \in DOMAIN workers : \E f \in FilesWritten(workers[id]) :
        /\ workers[id].mode = "OverlayIntoImage"
        /\ f.encoding = "Jpeg"
        /\ f.img.base.px = <<200, 100, 50, 128>>
        /\ f.pixels = {<<200, 100, 50>>}

(***************************************************************************)
(* C14                                                                     *)
(***************************************************************************)
\* the values the channel c of a pixel goes through in lines 1054-1056
FlattenTerms(px, bg, c) ==
    {px[c] * px[4], bg[c] * (255 - px[4]), px[c] * px[4] + bg[c] * (255 - px[4]),
     px[c] * px[4] + bg[c] * (255 - px[4]) + 127}

\* C14: flatten_rgba_to_rgb returns the source RGB when alpha is 255 and the
\* background when alpha is 0; for every alpha each 16-bit intermediate is
\* below 65536 and each output channel in 0..=255.
FlattenKeepsOpaqueAndBackground ==
    Probed("flatten_rgba_to_rgb") =>
        LET px  == probe[1].arg[1]
            bg  == probe[1].arg[2]
            out == probe[1].ret
        IN  /\ px[4] = 255 => out = SubSeq(px, 1, 3)
            /\ px[4] = 0 => out = bg
            /\ \A c \in 1..3 :
                  /\ out[c] \in 0..255
                  /\ \A t \in FlattenTerms(px, bg, c) : t < 65536
                  /\ out[c] * 255 <= px[c] * px[4] + bg[c] * (255 - px[4]) + 127
                  /\ px[c] * px[4] + bg[c] * (255 - px[4]) + 127 < (out[c] + 1) * 255

\* an opaque pixel over a background of another colour comes out unchanged
FlattenKeepsOpaqueAndBackgroundWitness ==
    /\ Probed("flatten_rgba_to_rgb")
    /\ probe[1].arg = <<<<200, 100, 50, 255>>, <<1, 127, 254>>>>
    /\ probe[1].ret = <<200, 100, 50>>

(***************************************************************************)
(* C15                                                                     *)
(***************************************************************************)
SupportedExtensions ==
    {<<"j","p","g">>, <<"j","p","e","g">>, <<"p","n","g">>, <<"t","i","f">>, <<"t","i","f","f">>}

HasSupportedExtension(path) ==
    /\ extension(path) # None
    /\ to_ascii_lowercase(extension(path)[1]) \in SupportedExtensions

\* C15: in every save mode, a write to an output path whose extension is
\* missing or not one of jpg/jpeg/png/tif/tiff fails, and the job's outcome
\* is Failed.  save_qr does not look at the extension when the format is
\* Jpeg, and leaves the choice to the image crate otherwise.
UnsupportedExtensionFails ==
    \A id \in DOMAIN workers : \A k \in DOMAIN workers[id].log :
        LET e == workers[id].log[k]
        IN  e.op = "write" /\ ~HasSupportedExtension(e.arg) =>
                /\ ~e.ok
                /\ workers[id].res # None
                /\ ~workers[id].res[1].ok

\* a single job with the format Jpeg and the output path "o": the file is
\* written and the job succeeds
UnsupportedExtensionFailsWitness ==
    \E id \in DOMAIN workers : \E f \in FilesWritten(workers[id]) :
        /\ workers[id].mode = "QrOnlySingle"
        /\ workers[id].p.out_format = "Jpeg"
        /\ f.path = <<"o">>
        /\ f.encoding = "Jpeg"
        /\ workers[id].res = Some(Ok(<<"o">>))

QuietZoneHoldsBackground ==
    Probed("draw_modules") =>
        LET zone == 4 * probe[1].ret.module_ss
            edge == probe[1].ret.canvas_ss
        IN  \A q \in probe[1].ret.painted :
                /\ zone <= q[1] /\ q[1] < edge - zone
                /\ zone <= q[2] /\ q[2] < edge - zone

\* one dark module, module edge 8, rounding 50 %: the pixel (31, 36) of the
\* quiet zone (columns 0..31) holds the module colour
QuietZoneHoldsBackgroundWitness ==
    /\ Probed("draw_modules")
    /\ probe[1].arg = <<1, {<<0, 0>>}, 20, 50>>
    /\ probe[1].ret.module_ss = 8
    /\ <<31, 36>> \in probe[1].ret.painted

(***************************************************************************)
(* C18                                                                     *)
(***************************************************************************)
\* the background pixel build_qr_image was applied to gives an alpha
BackgroundAlpha == probe[1].ret.val[1].bg_rgba[4]

\* C18 as stated: the background alpha is 0 when the background is None and
\* round(p * 255 / 100) when it is Some(c), for p in 0..=100
BackgroundAlphaIsRounded ==
    Probed("build_qr_image") /\ probe[1].ret.ok =>
        LET bg == probe[1].arg[3]
            p  == probe[1].arg[4]
        IN  BackgroundAlpha = IF bg = None THEN 0 ELSE (2 * p * 255 + 100) \div 200

\* C18, amended: the background alpha is 0 when the background is None and
\* floor(p * 255 / 100) when it is Some(c), for p in 0..=100; the colour of
\* a background Some(c) is c.
BackgroundAlphaIsTruncated ==
    Probed("build_qr_image") /\ probe[1].ret.ok =>
        LET bg == probe[1].arg[3]
            p  == probe[1].arg[4]
        IN  /\ BackgroundAlpha = IF bg = None THEN 0 ELSE (p * 255) \div 100
            /\ bg # None => SubSeq(probe[1].ret.val[1].bg_rgba, 1, 3) = bg[1]

\* the default 85 % over a white background: alpha 216, where rounding
\* gives 217
BackgroundAlphaIsTruncatedWitness ==
    /\ Probed("build_qr_image")
    /\ probe[1].ret.ok
    /\ probe[1].arg[3] = Some(<<255, 255, 255>>)
    /\ probe[1].arg[4] = 85
    /\ BackgroundAlpha = 216

(***************************************************************************)
(* C19                                                                     *)
(***************************************************************************)
\* C19 as stated: module_px = max(1, floor(size * SS / total_modules)) with
\* SS = 4 and total_modules = width + 8, and the canvas edge
\* module_px * total_modules is at least size * SS
CanvasCoversRequestedSize ==
    Probed("module_ss") =>
        LET size  == probe[1].arg[1]
            total == probe[1].arg[2] + 8
            m     == probe[1].ret[1]
        IN  /\ m = (IF (size * 4) \div total > 1 THEN (size * 4) \div total ELSE 1)
            /\ probe[1].ret[2] = m * total
            /\ probe[1].ret[2] >= size * 4

\* C19, amended: with target = max(size, total_modules),
\* module_px = floor(target * SS / total_modules), which is at least SS; the
\* canvas edge module_px * total_modules is at most target * SS and more
\* than target * SS - total_modules.
CanvasWithinTarget ==
    Probed("module_ss") =>
        LET size   == probe[1].arg[1]
            total  == probe[1].arg[2] + 8
            target == IF size > total THEN size ELSE total
            m      == probe[1].ret[1]
            canvas == probe[1].ret[2]
        IN  /\ m * total <= target * 4
            /\ target * 4 < (m + 1) * total
            /\ m >= 4
            /\ canvas = m * total
            /\ canvas <= target * 4
            /\ canvas > target * 4 - total

\* size 160 and a symbol of version 1: modules of 22 pixels, a canvas of 638
\* pixels, below 160 * 4
CanvasWithinTargetWitness ==
    /\ Probed("module_ss")
    /\ probe[1].arg = <<160, 21>>
    /\ probe[1].ret = <<22, 638>>

Separators == {"-", "_"}

SlugShape(slug) ==
    /\ Len(slug) <= SlugMaxLen
    /\ \A i \in 1..Len(slug) : is_ascii_alphanumeric(slug[i]) \/ slug[i] \in Separators
    /\ \A i \in 1..(Len(slug) - 1) : ~(slug[i] \in Separators /\ slug[i + 1] \in Separators)
    /\ slug # <<>> => slug[1] \notin Separators /\ slug[Len(slug)] \notin Separators

FileNameShape(index1, u, fmt, slug, name) ==
    LET head == <<"q","r","_">> \o ZeroPad(Decimal(index1), 3) \o <<"_">>
        tail == sha1_hex10(u) \o <<".">> \o ext(fmt)
    IN  name = IF slug = <<>> THEN head \o tail ELSE head \o slug \o <<"_">> \o tail

SlugIsWellFormed ==
    Probed("make_qr_filename") =>
        /\ SlugShape(probe[1].ret.slug)
        /\ FileNameShape(probe[1].arg[1], probe[1].arg[2], probe[1].arg[3],
                         probe[1].ret.slug, probe[1].ret.name)

\* the payload a__b gives the slug a__b
SlugIsWellFormedWitness ==
    /\ Probed("make_qr_filename")
    /\ probe[1].arg[2] = <<"a","_","_","b">>
    /\ probe[1].ret.slug = <<"a","_","_","b">>

(***************************************************************************)
(* C22: in every reachable state is_busy is true exactly when job_rx holds *)
(* a receiver: start_job sets both together and the poll of update clears  *)
(* both together.                                                          *)
(***************************************************************************)
BusyIffReceiver == is_busy <=> job_rx # None

\* a second job in flight, started after the outcome of a first was polled
BusyIffReceiverWitness ==
    /\ is_busy
    /\ job_rx # None
    /\ last_message # <<>>

(***************************************************************************)
(* C23: for every module edge w >= 1 and every radius r with               *)
(* 1 <= r <= floor(w/2), all pixels painted for a dark module whose tile   *)
(* starts at (x0, y0) lie inside [x0, x0+w) x [y0, y0+w).                  *)
(***************************************************************************)
InsideTile(px, x0, y0, w) ==
    /\ x0 <= px[1] /\ px[1] < x0 + w
    /\ y0 <= px[2] /\ px[2] < y0 + w

RoundedModuleStaysInTile ==
    Probed("draw_module") =>
        LET x0 == (probe[1].arg[1] + quiet_zone_mod) * probe[1].arg[3]
            y0 == (probe[1].arg[2] + quiet_zone_mod) * probe[1].arg[3]
        IN  \A px \in probe[1].ret : InsideTile(px, x0, y0, probe[1].arg[3])

\* module (0, 0) of edge 8 with radius 4: the tile starts at (32, 32) and the
\* pixel (31, 35) is painted
RoundedModuleStaysInTileWitness ==
    /\ Probed("draw_module")
    /\ probe[1].arg = <<0, 0, 8, 4>>
    /\ <<31, 35>> \in probe[1].ret

(***************************************************************************)
(* C24: for every standalone QR file a job writes, in single or in bulk    *)
(* mode, the encoding of the bytes corresponds to the extension of the     *)
(* path: PNG data only in .png files, JPEG data only in .jpg/.jpeg files,  *)
(* TIFF data only in .tif/.tiff files, for every out_format and every      *)
(* configured or default output path.                                      *)
(***************************************************************************)
ExtensionsOf(encoding) ==
    CASE encoding = "Png" -> {<<"p","n","g">>}
      [] encoding = "Jpeg" -> {<<"j","p","g">>, <<"j","p","e","g">>}
      [] encoding = "Tiff" -> {<<"t","i","f">>, <<"t","i","f","f">>}
      [] OTHER -> {}

EncodingMatchesExtension ==
    \A id \in DOMAIN workers : \A f \in FilesWritten(workers[id]) :
        (workers[id].mode \in {"QrOnlySingle", "QrOnlyBulk"}
            /\ f.encoding \in {"Png", "Jpeg", "Tiff"})
        => /\ extension(f.path) # None
           /\ to_ascii_lowercase(extension(f.path)[1]) \in ExtensionsOf(f.encoding)

\* a single job with the format Jpeg and no output path: JPEG data in qr.png
EncodingMatchesExtensionWitness ==
    \E id \in DOMAIN workers : \E f \in FilesWritten(workers[id]) :
        /\ workers[id].mode = "QrOnlySingle"
        /\ workers[id].p.out_format = "Jpeg"
        /\ workers[id].p.out_path = None
        /\ f.path = default_qr_out_path
        /\ f.encoding = "Jpeg"

(***************************************************************************)
(* C25: when the preview scale is 1 (base image at most 1200x1200), for    *)
(* every anchor, every base and QR size and every offset the sliders allow *)
(* (0..=bw, 0..=bh), the (x, y) of the preview equals the (x, y) of the    *)
(* overlay job.                                                            *)
(***************************************************************************)
PreviewPlacesLikeJob ==
    (Probed("preview_position")
        /\ probe[1].arg[2][1] <= 1200 /\ probe[1].arg[2][2] <= 1200)
    => probe[1].ret.preview = probe[1].ret.job

\* Northwest on a base of 100x80 with offset_x at the slider's maximum 100:
\* the job places the QR at x = 100, the preview at x = 99
PreviewPlacesLikeJobWitness ==
    /\ Probed("preview_position")
    /\ probe[1].arg = <<"Northwest", <<100, 80>>, 64, 100, 0>>
    /\ probe[1].ret.job = <<100, 0>>
    /\ probe[1].ret.preview = <<99, 0>>

====
